---- MODULE Spec2Model ----
(***************************************************************************)
(* A model of the red-bot emulator cog:                                    *)
(*   src/abstract_emulator.py  AbastractEmulator (the lifecycle contract)  *)
(*   src/gameBoy.py            GameBoy (the PyBoy backend adapter)         *)
(*   src/emulator.py           Emulator (the chat-command cog)             *)
(*                                                                         *)
(* Python values are encoded as follows.                                   *)
(*   - An optional object (None or a value) is a sequence of length 0 or 1.*)
(*   - A method of the emulator is an operator on a "machine" record       *)
(*     [e, fs, exc]: the instance, the state files on disk and the         *)
(*     exception that is propagating ("None" when there is none). A method *)
(*     applied to a machine whose exc is not "None" returns it unchanged,  *)
(*     which is how a raised exception skips the rest of the caller.       *)
(*   - A float number of seconds is an integer number of tenths.           *)
(*   - A message's content is the list of words content.split(" ") gives   *)
(*     (split(" ") is a bijection between strings and non-empty lists of   *)
(*     space-free words).                                                  *)
(***************************************************************************)
EXTENDS Integers, Sequences, FiniteSets, TLC

VARIABLES
    emu,        \* SpecEmu: one GameBoy instance driven through its public API
    files,      \* the files on disk (state files, GIFs): path -> [exists, data]
    last,       \* the operation of the latest step and how it ended
    calls,      \* SpecEmu: number of API calls made so far (bounded)
    local_path,        \* Config: local_path (<<>> is None)
    game_defs,         \* Config: game_defs, name -> [bootROM, gameROM]
    channels_to_defs,  \* Config: channels_to_defs, str(channel id) -> name
    defs_to_channels,  \* Config: defs_to_channels, name -> list of channel ids
    auto_loads,        \* Config: auto_loads, list of names
    instances,         \* Emulator._instances, name -> GameBoy
    instance_keys,     \* the keys of Emulator._instances in the order of insertion
    locks,             \* Emulator._locks, name -> asyncio.Lock
    procs,             \* the coroutines in flight, each suspended at an await
    ncmds              \* number of commands and messages handled so far (bounded)

(* ------------------------------ bounds -------------------------------- *)
MaxCalls == 4
MaxCmds == 3

(* --------------------------- program constants ------------------------ *)
GameBoyFps == 60

(* ------------------------------ PyBoy --------------------------------- *)
\* The state of the external emulator that a save state captures: the number
\* of frames emulated, the buttons currently held down, the number of press
\* events received, the last button pressed and the number of frames emulated
\* while some button was down.
FreshPyBoy ==
    [ticks |-> 0, down |-> {}, presses |-> 0, lastPressed |-> "none", downTicks |-> 0]

\* self._pyboy.send_input(code): a code is <<"PRESS"|"RELEASE", hardware button>>
SendInput(py, code) ==
    IF code[1] = "PRESS"
    THEN [py EXCEPT !.down = @ \cup {code[2]}, !.presses = @ + 1, !.lastPressed = code[2]]
    ELSE [py EXCEPT !.down = @ \ {code[2]}]

\* self._pyboy.get_screen_image(): the picture of the current frame
ScreenImage(py) == py.ticks

(* ------------------------------ ButtonCode ---------------------------- *)
ButtonCode(name, hw) ==
    [name |-> name, pressCode |-> <<"PRESS", hw>>, releaseCode |-> <<"RELEASE", hw>>]

\* str.lower() on the words the model uses
Lower(w) ==
    CASE w = "A" -> "a"
      [] w = "B" -> "b"
      [] w = "Se" -> "se"
      [] w = "Select" -> "select"
      [] w = "St" -> "st"
      [] w = "Start" -> "start"
      [] w = "START" -> "start"
      [] w = "U" -> "u"
      [] w = "Up" -> "up"
      [] w = "D" -> "d"
      [] w = "Down" -> "down"
      [] w = "L" -> "l"
      [] w = "Left" -> "left"
      [] w = "R" -> "r"
      [] w = "Right" -> "right"
      [] w = "P" -> "p"
      [] w = "H" -> "h"
      [] w = "ZZ" -> "zz"
      [] OTHER -> w

\* The ButtonCodes GameBoy.__init__ registers, in order
RegisteredButtons ==
    << ButtonCode("A", "A"), ButtonCode("B", "B"),
       ButtonCode("Se", "SELECT"), ButtonCode("Select", "SELECT"),
       ButtonCode("St", "START"), ButtonCode("Start", "START"),
       ButtonCode("U", "UP"), ButtonCode("Up", "UP"),
       ButtonCode("D", "DOWN"), ButtonCode("Down", "DOWN"),
       ButtonCode("L", "LEFT"), ButtonCode("Left", "LEFT"),
       ButtonCode("R", "RIGHT"), ButtonCode("Right", "RIGHT") >>

\* AbastractEmulator._registerButton: self.__buttons[button.name.lower()] = button
\* (the dict is a set of <<key, ButtonCode>> pairs with unique keys)
RegisterButton(buttons, button) ==
    {kv \in buttons : kv[1] # Lower(button.name)} \cup {<<Lower(button.name), button>>}

RECURSIVE RegisterAll(_, _, _)
RegisterAll(buttons, bs, i) ==
    IF i > Len(bs) THEN buttons
    ELSE RegisterAll(RegisterButton(buttons, bs[i]), bs, i + 1)

\* The dict self.__buttons of a GameBoy: GameBoy.__init__ registers the
\* fourteen buttons and nothing changes the dict afterwards
GameBoyButtons == RegisterAll({}, RegisteredButtons, 1)

\* GameBoy(): fps 60, no PyBoy, no screen shots
NewGameBoy ==
    [fps |-> GameBoyFps, pyboy |-> <<>>, screenShots |-> <<>>]

\* AbastractEmulator.buttonNames
ButtonNames(e) == {Lower(kv[1]) : kv \in GameBoyButtons}

\* GameBoy.isRunning: self._pyboy is not None
IsRunning(e) == Len(e.pyboy) > 0

(* ------------------------------ machines ------------------------------ *)
Machine(e, fs) == [e |-> e, fs |-> fs, exc |-> "None"]
Raise(m, x) == IF m.exc = "None" THEN [m EXCEPT !.exc = x] ELSE m
Ok(m) == m.exc = "None"

\* AbastractEmulator.assertIsRunning
AssertIsRunning(m) ==
    IF ~Ok(m) THEN m
    ELSE IF ~IsRunning(m.e) THEN Raise(m, "NotRunning") ELSE m

\* A variant of assertNotRunning that never raises
AssertNotRunningNever(m) == m

\* AbastractEmulator.assertNotRunning
AssertNotRunning(m) ==
    IF ~Ok(m) THEN m
    ELSE IF IsRunning(m.e) THEN Raise(m, "AlreadyRunning") ELSE m

\* An attribute access or call on self._pyboy while it is None
PyBoyCall(m) ==
    IF ~Ok(m) THEN m
    ELSE IF Len(m.e.pyboy) = 0 THEN Raise(m, "AttributeError") ELSE m

\* k calls of self._pyboy.tick() in a row (no input in between)
PyTicks(py, k) ==
    [py EXCEPT !.ticks = @ + k,
               !.downTicks = IF py.down # {} THEN @ + k ELSE @]

\* The screen shot buffer self.__screenShots is kept as a list of runs: the
\* run [py |-> s, n |-> k] stands for the k pictures that one frame loop took,
\* the i-th of them the picture of the PyBoy state s advanced by i frames.
ScreenShotsOf(run) == [i \in 1..run.n |-> ScreenImage(PyTicks(run.py, i))]

\* len(self.__screenShots)
RECURSIVE NumScreenShots(_)
NumScreenShots(screenShots) ==
    IF screenShots = <<>> THEN 0
    ELSE Head(screenShots).n + NumScreenShots(Tail(screenShots))

\* A frame loop that takes each picture before it runs the frame
FrameLoopShotFirst(m, n) ==
    IF ~Ok(m) \/ n <= 0 THEN m
    ELSE [m EXCEPT !.e.pyboy = <<PyTicks(m.e.pyboy[1], n)>>,
                   !.e.screenShots = Append(@, [py |-> PyTicks(m.e.pyboy[1], -1), n |-> n])]

\* for _ in range(n): self._runForOneFrame(); self._takeScreenShot()
\* on a running emulator: the i-th iteration leaves the emulator i frames on
\* and appends the picture of that frame.
FrameLoop(m, n) ==
    IF ~Ok(m) \/ n <= 0 THEN m
    ELSE [m EXCEPT !.e.pyboy = <<PyTicks(m.e.pyboy[1], n)>>,
                   !.e.screenShots = Append(@, [py |-> m.e.pyboy[1], n |-> n])]

\* AbastractEmulator.runForXFrames
RunForXFrames(m, numberOfFrames) ==
    IF ~Ok(m) THEN m
    ELSE IF numberOfFrames < 0 THEN Raise(m, "ValueError")
    ELSE LET a == AssertIsRunning(m) IN
         IF ~Ok(a) THEN a
         ELSE IF numberOfFrames = 0 THEN a
         ELSE FrameLoop(a, numberOfFrames)

\* The numbers of seconds num/den, among those the model uses, whose product
\* with 60 is a whole number of frames on paper but comes out above it in the
\* double arithmetic of numberOfSeconds * self._fps: 8.3 * 60 evaluates to
\* 498.00000000000006. For every other number of seconds of the model the
\* double product has the ceiling of the product on paper.
ProductAbove == {<<83, 10>>}

\* int(math.ceil(numberOfSeconds * fps)) for numberOfSeconds = num/den
CeilFramesAt(num, den, fps) ==
    LET onPaper == (num * fps + den - 1) \div den IN
    IF <<num, den>> \in ProductAbove /\ fps = GameBoyFps THEN onPaper + 1 ELSE onPaper

\* int(math.ceil(numberOfSeconds * fps)) for a number of seconds given in tenths
CeilFrames(tenths, fps) == CeilFramesAt(tenths, 10, fps)

\* AbastractEmulator.runForXSeconds with numberOfSeconds = num/den
RunForXSecondsAt(m, num, den) ==
    IF ~Ok(m) THEN m
    ELSE IF num < 0 THEN Raise(m, "ValueError")
    ELSE LET a == AssertIsRunning(m) IN
         IF ~Ok(a) THEN a
         ELSE RunForXFrames(a, CeilFramesAt(num, den, a.e.fps))

\* AbastractEmulator.runForXSeconds with a number of seconds given in tenths
RunForXSeconds(m, tenths) == RunForXSecondsAt(m, tenths, 10)

(* ------------------------------ buttons ------------------------------- *)
RaiseButtonNotRecognized(m, buttonName) == Raise(m, "NameError")

\* AbastractEmulator._getButton: the machine after the lookup (a miss raises) ...
GetButton(m, buttonName) ==
    IF ~Ok(m) THEN m
    ELSE IF \E kv \in GameBoyButtons : kv[1] = Lower(buttonName) THEN m
    ELSE RaiseButtonNotRecognized(m, buttonName)

\* ... and the ButtonCode it returns on a hit
ButtonOf(e, buttonName) ==
    (CHOOSE kv \in GameBoyButtons : kv[1] = Lower(buttonName))[2]

\* self._pyboy.send_input(code)
PySendInput(m, code) ==
    LET c == PyBoyCall(m) IN
    IF ~Ok(c) THEN c ELSE [c EXCEPT !.e.pyboy = <<SendInput(c.e.pyboy[1], code)>>]

\* GameBoy._abstractPressButton
AbstractPressButton(m, button) ==
    RunForXSeconds(
        PySendInput(RunForXFrames(PySendInput(m, button.pressCode), 2),
                    button.releaseCode),
        10)

\* GameBoy._abstractHoldButton
AbstractHoldButton(m, button, tenths) ==
    RunForXSeconds(
        PySendInput(RunForXSeconds(PySendInput(m, button.pressCode), tenths),
                    button.releaseCode),
        10)

\* AbastractEmulator.pressButton
PressButton(m, buttonName) ==
    LET g == GetButton(AssertIsRunning(m), buttonName) IN
    IF ~Ok(g) THEN g ELSE AbstractPressButton(g, ButtonOf(g.e, buttonName))

\* AbastractEmulator.holdButton
HoldButton(m, buttonName, tenths) ==
    LET a == AssertIsRunning(m) IN
    IF ~Ok(a) THEN a
    ELSE IF tenths < 0 THEN Raise(a, "ValueError")
    ELSE LET g == GetButton(a, buttonName) IN
         IF ~Ok(g) THEN g ELSE AbstractHoldButton(g, ButtonOf(g.e, buttonName), tenths)

(* ------------------------------ state files --------------------------- *)
NoFile == [exists |-> FALSE, data |-> <<>>]
EmptyFile == [exists |-> TRUE, data |-> <<>>]
StateFileOf(py) == [exists |-> TRUE, data |-> <<py>>]

\* GameBoy.saveState: open(path, "wb") creates or truncates the file, then
\* self._pyboy.save_state(fout) writes the state
SaveState(m, path) ==
    IF ~Ok(m) THEN m
    ELSE LET o == [m EXCEPT !.fs[path] = EmptyFile]
             c == PyBoyCall(o) IN
         IF ~Ok(c) THEN c ELSE [c EXCEPT !.fs[path] = StateFileOf(c.e.pyboy[1])]

\* GameBoy.loadState: open(path, "rb") needs the file, then
\* self._pyboy.load_state(fin) replaces the emulator's state. A file that
\* holds no state (left empty by a failed save) is refused by the backend.
LoadState(m, path) ==
    IF ~Ok(m) THEN m
    ELSE IF ~m.fs[path].exists THEN Raise(m, "FileNotFoundError")
    ELSE LET c == PyBoyCall(m) IN
         IF ~Ok(c) THEN c
         ELSE IF Len(c.fs[path].data) = 0 THEN Raise(c, "StateError")
         ELSE [c EXCEPT !.e.pyboy = <<c.fs[path].data[1]>>]

(* ------------------------------ start, stop, GIF ---------------------- *)
\* GameBoy._abstractStart: a new PyBoy on the ROM (which exists)
AbstractStart(m) ==
    IF ~Ok(m) THEN m ELSE [m EXCEPT !.e.pyboy = <<FreshPyBoy>>]

\* GameBoy._abstractStop
AbstractStop(m) ==
    LET c == PyBoyCall(m) IN
    IF ~Ok(c) THEN c ELSE [c EXCEPT !.e.pyboy = <<>>]

\* AbastractEmulator.start; saveStateFilePath is <<>> (None) or <<path>>
Start(m, saveStateFilePath, tenthsToRun) ==
    IF ~Ok(m) THEN m
    ELSE IF tenthsToRun < 0 THEN Raise(m, "ValueError")
    ELSE LET s == AbstractStart(AssertNotRunning(m))
             l == IF Len(saveStateFilePath) > 0 THEN LoadState(s, saveStateFilePath[1]) ELSE s
         IN RunForXSeconds(l, tenthsToRun)

\* A variant of stop that saves the state before it looks whether the
\* emulator is running
StopSavesFirst(m, saveStateFilePath) ==
    LET s == IF Len(saveStateFilePath) > 0 THEN SaveState(m, saveStateFilePath[1]) ELSE m
    IN AbstractStop(AssertIsRunning(s))

\* AbastractEmulator.stop
Stop(m, saveStateFilePath) ==
    LET a == AssertIsRunning(m)
        s == IF Len(saveStateFilePath) > 0 THEN SaveState(a, saveStateFilePath[1]) ELSE a
    IN AbstractStop(s)

\* The file Image.save(filePath, format='GIF', save_all=True, ...) writes: the
\* frames of the buffer (held here as their number)
GifOf(screenShots) == [exists |-> TRUE, data |-> <<NumScreenShots(screenShots)>>]

\* A variant of makeGIF without the test of the length of the buffer
MakeGIFUnchecked(m, filePath) ==
    LET a == AssertIsRunning(m) IN
    IF ~Ok(a) THEN a
    ELSE [a EXCEPT !.fs[filePath] = GifOf(a.e.screenShots), !.e.screenShots = <<>>]

\* AbastractEmulator.makeGIF: the GIF written to filePath holds the buffered
\* screen shots, and the buffer is emptied.
MakeGIF(m, filePath) ==
    LET a == AssertIsRunning(m) IN
    IF ~Ok(a) THEN a
    ELSE IF NumScreenShots(a.e.screenShots) = 0 THEN Raise(a, "NoScreenShotFramesSaved")
    ELSE [a EXCEPT !.fs[filePath] = GifOf(a.e.screenShots), !.e.screenShots = <<>>]

(* ===================================================================== *)
(* SpecEmu: one GameBoy instance driven through its public methods.       *)
(* ===================================================================== *)
Defs == {"g1", "g2"}

\* Emulator.state_save_path(def_name, "main"):
\* '<local_path>/gb/saves/<def_name>/states/main'
StateSavePath(def_name) == def_name \o "/states/main"

Paths == {StateSavePath(d) : d \in Defs}

\* Emulator.screen_shots_save_path(def_name, f"{datetime.now()}.gif"):
\* '<local_path>/gb/saves/<def_name>/screen_shots/<time>.gif'; the GIFs of a
\* game are held as one file, the latest
ScreenShotsSavePath(def_name) == def_name \o "/screen_shots/gif"

GifPaths == {ScreenShotsSavePath(d) : d \in Defs}

\* The path makeGIF is called with in SpecEmu
GifInputs == {ScreenShotsSavePath("g1")}

\* The outcome of a step: the operation, the exception it ended with, and for
\* the cog the title of its answer, the channel of a message that on_message
\* returned on (0: none), and the button, number and channels of what a
\* coroutine posted. For a register or unregister that succeeded, chan is the
\* channel and before holds the two registration maps as the command found
\* them.
Outcome(op, exc) ==
    [op |-> op, exc |-> exc, reply |-> "", chan |-> 0, button |-> "", num |-> 0,
     posted |-> {}, before |-> <<>>]

OptPaths == {<<>>} \cup {<<p>> : p \in Paths}
ButtonWords == {"A", "a", "St", "zz"}
SecondsInputs == {-10, 0, 5}
FramesInputs == {-1, 0, 1, 2}

\* The arguments of runForXSeconds, as <<num, den>> for num/den seconds: the
\* numbers of SecondsInputs, two seconds, 8.3 seconds and a hundredth of a second
RunSecondsInputs == {<<t, 10>> : t \in SecondsInputs} \cup {<<20, 10>>, <<83, 10>>, <<1, 100>>}

EmuVars == <<emu, files, last, calls>>
CogVars == <<local_path, game_defs, channels_to_defs, defs_to_channels, auto_loads,
             instances, instance_keys, locks, procs, ncmds>>
vars == <<emu, files, last, calls, local_path, game_defs, channels_to_defs,
          defs_to_channels, auto_loads, instances, instance_keys, locks, procs, ncmds>>

Procs == 1..MaxCmds

\* A coroutine slot that is not in use
IdleProc ==
    [pc |-> "idle", def |-> "", button |-> "", action |-> "", num |-> 0,
     title |-> "", targets |-> <<>>, snapshot |-> <<>>,
     keys |-> <<>>, pos |-> 0, used |-> 0]

\* The registered defaults _DEFAULT_GLOBAL
DefaultConfig ==
    [local_path |-> <<>>, game_defs |-> <<>>, channels_to_defs |-> <<>>,
     defs_to_channels |-> <<>>, auto_loads |-> <<>>]

\* A configuration that an earlier session of the cog left behind (localpath,
\* set_definition g1 b1 r1, set_definition g2 b1 r2, register g1 in channel 1,
\* register g2 in channel 2, add_auto_load g1, add_auto_load g2)
PlayedConfig ==
    [local_path |-> <<"data">>,
     game_defs |-> [d \in {"g1", "g2"} |->
                      [bootROM |-> "b1", gameROM |-> IF d = "g1" THEN "r1" ELSE "r2"]],
     channels_to_defs |-> [c \in {"1", "2"} |-> IF c = "1" THEN "g1" ELSE "g2"],
     defs_to_channels |-> [d \in {"g1", "g2"} |-> IF d = "g1" THEN <<1>> ELSE <<2>>],
     auto_loads |-> <<"g1", "g2">>]

\* Emulator.__init__: Config.get_conf gives what is stored, which is the
\* defaults for a new bot and otherwise what the setup commands wrote
CogInit ==
    /\ \E conf \in {DefaultConfig, PlayedConfig} :
          /\ local_path = conf.local_path
          /\ game_defs = conf.game_defs
          /\ channels_to_defs = conf.channels_to_defs
          /\ defs_to_channels = conf.defs_to_channels
          /\ auto_loads = conf.auto_loads
    /\ instances = <<>>
    /\ instance_keys = <<>>
    /\ locks = <<>>
    /\ procs = [p \in Procs |-> IdleProc]
    /\ ncmds = 0

EmuInit ==
    /\ emu = NewGameBoy
    /\ files \in [Paths \cup GifPaths -> {NoFile}]
    /\ last = Outcome("init", "None")
    /\ calls = 0
    /\ CogInit

\* The effect of a method call: the instance and the files as the method left
\* them (also when it raised), and the exception recorded.
EmuCall(op, m) ==
    /\ calls < MaxCalls
    /\ calls' = calls + 1
    /\ emu' = m.e
    /\ files' = m.fs
    /\ last' = Outcome(op, m.exc)
    /\ UNCHANGED CogVars

EmuStart == \E p \in OptPaths, t \in SecondsInputs :
    EmuCall("start", Start(Machine(emu, files), p, t))
EmuStop == \E p \in OptPaths :
    EmuCall("stop", Stop(Machine(emu, files), p))
EmuPressButton == \E b \in ButtonWords :
    EmuCall("pressButton", PressButton(Machine(emu, files), b))
EmuHoldButton == \E b \in ButtonWords, t \in SecondsInputs :
    EmuCall("holdButton", HoldButton(Machine(emu, files), b, t))
EmuRunForXFrames == \E n \in FramesInputs :
    EmuCall("runForXFrames", RunForXFrames(Machine(emu, files), n))
EmuRunForXSeconds == \E s \in RunSecondsInputs :
    EmuCall("runForXSeconds", RunForXSecondsAt(Machine(emu, files), s[1], s[2]))
EmuMakeGIF == \E p \in GifInputs :
    EmuCall("makeGIF", MakeGIF(Machine(emu, files), p))
EmuSaveState == \E p \in Paths :
    EmuCall("saveState", SaveState(Machine(emu, files), p))
EmuLoadState == \E p \in Paths :
    EmuCall("loadState", LoadState(Machine(emu, files), p))

EmuNext ==
    \/ EmuStart
    \/ EmuStop
    \/ EmuPressButton
    \/ EmuHoldButton
    \/ EmuRunForXFrames
    \/ EmuRunForXSeconds
    \/ EmuMakeGIF
    \/ EmuSaveState
    \/ EmuLoadState

SpecEmu == EmuInit /\ [][EmuNext]_vars

(* ------------------------------ properties of SpecEmu ----------------- *)
\* C1: isRunning changes only in a start or a stop that succeeds: it becomes
\* true exactly on a successful start, false exactly on a successful stop, and
\* every other call (and every call that raises) leaves it as it is.
C1_RunningFollowsSuccess ==
    [][ /\ (~IsRunning(emu) /\ IsRunning(emu')) <=> (last'.op = "start" /\ last'.exc = "None")
        /\ (IsRunning(emu) /\ ~IsRunning(emu')) <=> (last'.op = "stop" /\ last'.exc = "None")
      ]_vars

\* C3: start with numberOfSecondsToRun >= 0 on a running emulator raises
\* AlreadyRunning and leaves the emulator (backend state, screen shots,
\* running) and the state files as they were.
C3_StartWhileRunning ==
    [][ \A p \in OptPaths, t \in SecondsInputs :
          (/\ IsRunning(emu)
           /\ t >= 0
           /\ EmuCall("start", Start(Machine(emu, files), p, t)))
          => (/\ last'.exc = "AlreadyRunning"
              /\ emu' = emu
              /\ files' = files)
      ]_vars

\* A start on a running emulator has raised AlreadyRunning
C3_Witness ==
    /\ last.op = "start"
    /\ last.exc = "AlreadyRunning"
    /\ IsRunning(emu)
    /\ emu.pyboy[1].ticks > 0

\* The calls of C4 with valid arguments: a registered button, a number of
\* seconds or frames that is not negative
C4_ValidCall ==
    \/ \E b \in ButtonWords :
         /\ Lower(b) \in ButtonNames(emu)
         /\ EmuCall("pressButton", PressButton(Machine(emu, files), b))
    \/ \E b \in ButtonWords, t \in SecondsInputs :
         /\ Lower(b) \in ButtonNames(emu)
         /\ t >= 0
         /\ EmuCall("holdButton", HoldButton(Machine(emu, files), b, t))
    \/ \E n \in FramesInputs :
         /\ n >= 0
         /\ EmuCall("runForXFrames", RunForXFrames(Machine(emu, files), n))
    \/ \E s \in RunSecondsInputs :
         /\ s[1] >= 0
         /\ EmuCall("runForXSeconds", RunForXSecondsAt(Machine(emu, files), s[1], s[2]))
    \/ \E p \in GifInputs : EmuCall("makeGIF", MakeGIF(Machine(emu, files), p))
    \/ \E p \in OptPaths :
         EmuCall("stop", Stop(Machine(emu, files), p))

\* C4: pressButton, holdButton, runForXFrames, runForXSeconds, makeGIF and
\* stop with valid arguments on an emulator that is not running raise
\* NotRunning and leave the emulator and the state files as they were.
C4_NotRunningRaises ==
    [][ (~IsRunning(emu) /\ C4_ValidCall)
          => (/\ last'.exc = "NotRunning"
              /\ last'.op \in {"pressButton", "holdButton", "runForXFrames",
                               "runForXSeconds", "makeGIF", "stop"}
              /\ emu' = emu
              /\ files' = files)
      ]_vars

\* A stop on an emulator that is not running has raised NotRunning
C4_Witness ==
    /\ last.op = "stop"
    /\ last.exc = "NotRunning"
    /\ ~IsRunning(emu)

\* C5: pressButton or holdButton on a running emulator with a name that is no
\* registered button (compared in lower case) raises ButtonNotRecognized and
\* leaves the emulator as it was (no input sent, no frame run).
C5_UnknownButtonRaises ==
    [][ /\ \A b \in ButtonWords :
             (/\ IsRunning(emu)
              /\ Lower(b) \notin ButtonNames(emu)
              /\ EmuCall("pressButton", PressButton(Machine(emu, files), b)))
             => (last'.exc = "ButtonNotRecognized" /\ emu' = emu)
        /\ \A b \in ButtonWords, t \in SecondsInputs :
             (/\ IsRunning(emu)
              /\ Lower(b) \notin ButtonNames(emu)
              /\ t >= 0
              /\ EmuCall("holdButton", HoldButton(Machine(emu, files), b, t)))
             => (last'.exc = "ButtonNotRecognized" /\ emu' = emu)
      ]_vars

\* C18: makeGIF on a running emulator whose buffer of screen shots is empty
\* raises NoScreenShotFramesSaved, writes no file (every file is as it was)
\* and leaves the instance, and so its empty buffer, as it was.
C18_EmptyBufferRaises ==
    [][ \A p \in GifInputs :
          (/\ IsRunning(emu)
           /\ NumScreenShots(emu.screenShots) = 0
           /\ EmuCall("makeGIF", MakeGIF(Machine(emu, files), p)))
          => (/\ last'.exc = "NoScreenShotFramesSaved"
              /\ files' = files
              /\ emu' = emu
              /\ NumScreenShots(emu'.screenShots) = 0)
      ]_vars

\* makeGIF was refused on a running emulator whose buffer an earlier makeGIF
\* had emptied, and the GIF of that earlier call is still on disk
C18_Witness ==
    /\ last.op = "makeGIF"
    /\ last.exc = "NoScreenShotFramesSaved"
    /\ IsRunning(emu)
    /\ emu.screenShots = <<>>
    /\ \E p \in GifInputs : files[p].exists /\ files[p].data[1] > 0

\* The pictures that a call appended to the buffer, the buffer before the
\* call being a prefix of the buffer after it
Appended(before, after) ==
    IF Len(after) = Len(before) THEN <<>>
    ELSE ScreenShotsOf(after[Len(after)])

\* C21: runForXFrames(n) with n >= 0 on a running emulator returns with the
\* backend exactly n frames on (its buttons and press events as they were) and
\* with exactly n pictures added at the end of the buffer, the i-th of them the
\* picture of the frame i frames after the call began (each picture is taken
\* after its frame, never before it); no file changes, and with n = 0 the
\* emulator is as it was.
C21_RunsFramesAndShots ==
    [][ \A n \in FramesInputs :
          (/\ IsRunning(emu)
           /\ n >= 0
           /\ EmuCall("runForXFrames", RunForXFrames(Machine(emu, files), n)))
          => (/\ last'.exc = "None"
              /\ IsRunning(emu')
              /\ files' = files
              /\ emu'.pyboy[1].ticks = emu.pyboy[1].ticks + n
              /\ emu'.pyboy[1].down = emu.pyboy[1].down
              /\ emu'.pyboy[1].presses = emu.pyboy[1].presses
              /\ NumScreenShots(emu'.screenShots) = NumScreenShots(emu.screenShots) + n
              /\ Len(emu'.screenShots) \in {Len(emu.screenShots), Len(emu.screenShots) + 1}
              /\ SubSeq(emu'.screenShots, 1, Len(emu.screenShots)) = emu.screenShots
              /\ Appended(emu.screenShots, emu'.screenShots)
                    = [i \in 1..n |-> emu.pyboy[1].ticks + i]
              /\ (n = 0) => (emu' = emu))
      ]_vars

\* runForXFrames(2) returned on an emulator that had pictures in its buffer:
\* the last two pictures are those of the two frames it ran
C21_Witness ==
    /\ last.op = "runForXFrames"
    /\ last.exc = "None"
    /\ IsRunning(emu)
    /\ Len(emu.screenShots) >= 2
    /\ emu.screenShots[Len(emu.screenShots)].n = 2
    /\ ScreenShotsOf(emu.screenShots[Len(emu.screenShots)])
         = <<emu.pyboy[1].ticks - 1, emu.pyboy[1].ticks>>

\* C22: runForXSeconds(s) with s >= 0 on a running emulator runs exactly
\* ceil(s * fps) frames, the product taken as a number: at the 60 frames a
\* second of the GameBoy a whole number of seconds s runs 60 * s frames, 0
\* seconds run no frame and leave the emulator as it was, and half a second
\* runs 30 frames.
C22_CeilOfSeconds ==
    [][ \A s \in RunSecondsInputs :
          (/\ IsRunning(emu)
           /\ s[1] >= 0
           /\ EmuCall("runForXSeconds", RunForXSecondsAt(Machine(emu, files), s[1], s[2])))
          => (/\ last'.exc = "None"
              /\ IsRunning(emu')
              /\ s[2] * (emu'.pyboy[1].ticks - emu.pyboy[1].ticks) >= s[1] * emu.fps
              /\ s[2] * (emu'.pyboy[1].ticks - emu.pyboy[1].ticks - 1) < s[1] * emu.fps
              /\ NumScreenShots(emu'.screenShots) - NumScreenShots(emu.screenShots)
                    = emu'.pyboy[1].ticks - emu.pyboy[1].ticks
              /\ (s[1] % s[2] = 0)
                    => (emu'.pyboy[1].ticks = emu.pyboy[1].ticks + 60 * (s[1] \div s[2]))
              /\ (s[1] = 0) => (emu' = emu)
              /\ (2 * s[1] = s[2]) => (emu'.pyboy[1].ticks = emu.pyboy[1].ticks + 30))
      ]_vars

(* ===================================================================== *)
(* Spec: the cog. A handler is one action up to its first real suspension *)
(* (a wait for a lock, the sending of messages while a lock is held, the  *)
(* wait for a reaction); the reads and writes of the bot's configuration  *)
(* made in between run together with the code around them. The folders    *)
(* <local_path>/gb/{boots,games,saves} exist once local_path is set.      *)
(* ===================================================================== *)
Channels == {1, 2}

\* str(channel.id)
ChanStr(c) == CASE c = 1 -> "1" [] c = 2 -> "2" [] c = 3 -> "3" [] OTHER -> "?"

\* the ROM files present in <local_path>/gb/boots and <local_path>/gb/games
BootROMsOnDisk == {"b1"}
GameROMsOnDisk == {"r1", "r2"}

\* Python dicts are functions; d[k] = v, del d[k]
Put(d, k, v) == [x \in (DOMAIN d) \cup {k} |-> IF x = k THEN v ELSE d[x]]
Del(d, k) == [x \in (DOMAIN d) \ {k} |-> d[x]]

\* a finished handler: what it answered (the title of the embed) and to whom
Reply(op, title) == [Outcome(op, "None") EXCEPT !.reply = title]
Raised(op, exc) == Outcome(op, exc)

\* the things a step leaves alone
ConfUnchanged == UNCHANGED <<local_path, game_defs, channels_to_defs, defs_to_channels, auto_loads>>
RunUnchanged == UNCHANGED <<instances, instance_keys, locks, procs, files>>
EmuUnchanged == UNCHANGED <<emu, calls>>

\* The bot hands a command or a message to its handler
Dispatch ==
    /\ ncmds < MaxCmds
    /\ ncmds' = ncmds + 1

\* Emulator.setup_local_path without an argument: reset to the default
SetupLocalPath ==
    /\ local_path' = <<"data">>
    /\ last' = Reply("setup_local_path", "Setting Changed")
    /\ UNCHANGED <<game_defs, channels_to_defs, defs_to_channels, auto_loads>>
    /\ RunUnchanged /\ EmuUnchanged /\ Dispatch


\* Emulator.gb_path: os.path.join(None, "gb") raises TypeError
PathsRaise == local_path = <<>>

\* A variant of the name check that accepts every name
NameConflictNever(defs, definition_name) == FALSE

\* The check of setup_set_definition that the name is not in use
NameConflict(defs, definition_name) == definition_name \in DOMAIN defs

\* Emulator.setup_set_definition
SetupSetDefinition(definition_name, bootROM, gameROM) ==
    /\ Dispatch
    /\ RunUnchanged /\ EmuUnchanged
    /\ UNCHANGED <<local_path, channels_to_defs, auto_loads>>
    /\ IF PathsRaise
       THEN /\ last' = Raised("setup_set_definition", "TypeError")
            /\ UNCHANGED <<game_defs, defs_to_channels>>
       ELSE IF bootROM \notin BootROMsOnDisk
       THEN /\ last' = Reply("setup_set_definition", "Invalid Boot ROM")
            /\ UNCHANGED <<game_defs, defs_to_channels>>
       ELSE IF gameROM \notin GameROMsOnDisk
       THEN /\ last' = Reply("setup_set_definition", "Invalid Game ROM")
            /\ UNCHANGED <<game_defs, defs_to_channels>>
       ELSE IF NameConflict(game_defs, definition_name)
       THEN /\ last' = Reply("setup_set_definition", "Name Conflict")
            /\ UNCHANGED <<game_defs, defs_to_channels>>
       ELSE /\ game_defs' = Put(game_defs, definition_name,
                                [bootROM |-> bootROM, gameROM |-> gameROM])
            /\ defs_to_channels' = Put(defs_to_channels, definition_name, <<>>)
            /\ last' = Reply("setup_set_definition", "Saved Definition")

\* Emulator.setup_register, issued in channel c
SetupRegister(c, definition_name) ==
    /\ Dispatch
    /\ RunUnchanged /\ EmuUnchanged
    /\ UNCHANGED <<local_path, game_defs, auto_loads>>
    /\ IF definition_name \notin DOMAIN game_defs
       THEN /\ last' = Reply("setup_register", "Improper Definition Name")
            /\ UNCHANGED <<channels_to_defs, defs_to_channels>>
       ELSE IF ChanStr(c) \in DOMAIN channels_to_defs
       THEN \* the message is built from def_name, a name the function never binds
            /\ last' = Raised("setup_register", "NameError")
            /\ UNCHANGED <<channels_to_defs, defs_to_channels>>
       ELSE IF definition_name \notin DOMAIN defs_to_channels
       THEN \* channels_to_defs is written before defs_to_channels[definition_name] fails
            /\ channels_to_defs' = Put(channels_to_defs, ChanStr(c), definition_name)
            /\ last' = Raised("setup_register", "KeyError")
            /\ UNCHANGED defs_to_channels
       ELSE /\ channels_to_defs' = Put(channels_to_defs, ChanStr(c), definition_name)
            /\ defs_to_channels' = [defs_to_channels EXCEPT ![definition_name] = Append(@, c)]
            /\ last' = [Reply("setup_register", "Channel Registered")
                          EXCEPT !.chan = c,
                                 !.before = <<channels_to_defs, defs_to_channels>>]

\* A variant of the filter of setup_unregister that keeps every channel
FilterOutNothing(channel_ids, channel_id) == channel_ids

\* list(filter(lambda c_id: c_id != channel_id, channel_ids))
RECURSIVE FilterOut(_, _)
FilterOut(channel_ids, channel_id) ==
    IF channel_ids = <<>> THEN <<>>
    ELSE IF Head(channel_ids) # channel_id
         THEN <<Head(channel_ids)>> \o FilterOut(Tail(channel_ids), channel_id)
         ELSE FilterOut(Tail(channel_ids), channel_id)

\* Emulator.setup_unregister, issued in channel c
SetupUnregister(c) ==
    /\ Dispatch
    /\ RunUnchanged /\ EmuUnchanged
    /\ UNCHANGED <<local_path, game_defs, auto_loads>>
    /\ IF ChanStr(c) \notin DOMAIN channels_to_defs
       THEN /\ last' = Reply("setup_unregister", "Channel Not Registered")
            /\ UNCHANGED <<channels_to_defs, defs_to_channels>>
       ELSE LET def_name == channels_to_defs[ChanStr(c)] IN
            /\ channels_to_defs' = Del(channels_to_defs, ChanStr(c))
            /\ IF def_name \notin DOMAIN defs_to_channels
               THEN /\ last' = Raised("setup_unregister", "KeyError")
                    /\ UNCHANGED defs_to_channels
               ELSE /\ defs_to_channels' =
                         [defs_to_channels EXCEPT ![def_name] = FilterOut(@, c)]
                    /\ last' = [Reply("setup_unregister", "Channel Unregistered")
                                  EXCEPT !.chan = c,
                                         !.before = <<channels_to_defs, defs_to_channels>>]

(* ------------------------------ asyncio.Lock -------------------------- *)
\* asyncio.Lock(): not locked, no waiters. woken says that release() has set
\* the result of the first waiter's future and that waiter has not run yet.
NewLock == [locked |-> FALSE, waiters |-> <<>>, woken |-> FALSE]

\* A variant of Lock.locked() that always finds the lock free
LockedNever(lk) == FALSE

\* Lock.locked()
Locked(lk) == lk.locked

\* Lock.acquire() returns at once iff the lock is free and nobody waits for it
CanAcquire(lk) == ~lk.locked /\ lk.waiters = <<>>
AcquireNow(lks, d) == [lks EXCEPT ![d].locked = TRUE]
\* otherwise the caller appends a future to the waiters and suspends
Enqueue(lks, d, p) == [lks EXCEPT ![d].waiters = Append(@, p)]
\* Lock.release(): unlock and wake the first waiter
Release(lks, d) ==
    [lks EXCEPT ![d].locked = FALSE, ![d].woken = (lks[d].waiters # <<>>)]
\* the woken waiter resumes: it leaves the waiters and takes the lock
Woken(lks, d, p) ==
    /\ d \in DOMAIN lks
    /\ lks[d].woken
    /\ lks[d].waiters # <<>>
    /\ Head(lks[d].waiters) = p
Resume(lks, d) ==
    [lks EXCEPT ![d].waiters = Tail(@), ![d].locked = TRUE, ![d].woken = FALSE]

\* the coroutine slot a new handler runs in
HasFreeProc == \E p \in Procs : procs[p].pc = "idle"
FreeProc == CHOOSE p \in Procs : procs[p].pc = "idle" /\ \A q \in Procs : procs[q].pc = "idle" => p <= q

Suspend(p, pc, d) == [procs EXCEPT ![p] = [IdleProc EXCEPT !.pc = pc, !.def = d]]
Done(p) == [procs EXCEPT ![p] = IdleProc]

\* the set of the channel ids in a list
Range(seq) == {seq[i] : i \in 1..Len(seq)}

\* the keys of a dict after d[k] = v: a new key comes last
KeysWith(keys, k) == IF k \in Range(keys) THEN keys ELSE Append(keys, k)

(* ------------------------------ _start_instance ----------------------- *)
\* A variant of _start_instance that makes a new lock on every call
StartLocksAlwaysNew(lks, definition_name) == Put(lks, definition_name, NewLock)

\* _start_instance: if self._locks.get(name) is None: self._locks[name] = asyncio.Lock()
StartLocks(lks, definition_name) ==
    IF definition_name \in DOMAIN lks THEN lks ELSE Put(lks, definition_name, NewLock)

\* A variant of _load_main_state_file that loads nothing
LoadMainStateFileNothing(m, definition_name) == m

\* Emulator._load_main_state_file
LoadMainStateFile(m, definition_name) ==
    IF ~Ok(m) THEN m
    ELSE IF m.fs[StateSavePath(definition_name)].exists
         THEN LoadState(m, StateSavePath(definition_name))
         ELSE m

\* Emulator._save_main_state_file
SaveMainStateFile(m, definition_name) == SaveState(m, StateSavePath(definition_name))

\* A variant of the test of _start_instance that starts an instance that runs
StartNeededAlways(e) == TRUE

\* _start_instance: if not self._instances[definition_name].isRunning
StartNeeded(e) == ~IsRunning(e)

\* The emulator calls of _start_instance for an instance that is not running:
\* start without running, load the main state file, run a minute, make the GIF
StartEmulator(m, definition_name) ==
    MakeGIF(RunForXSeconds(LoadMainStateFile(Start(m, <<>>, 0), definition_name), 600),
            ScreenShotsSavePath(definition_name))

\* The body of _start_instance under the lock; lk is self._locks with the
\* lock of definition_name held by coroutine p
StartEnter(p, definition_name, lk) ==
    LET e0 == IF definition_name \in DOMAIN instances
              THEN instances[definition_name] ELSE NewGameBoy
        m0 == Machine(e0, files)
        m1 == IF definition_name \notin DOMAIN game_defs THEN Raise(m0, "KeyError")
              ELSE StartEmulator(m0, definition_name)
        m2 == IF Ok(m1) /\ definition_name \notin DOMAIN defs_to_channels
              THEN Raise(m1, "KeyError") ELSE m1
    IN
    IF PathsRaise
    THEN /\ locks' = Release(lk, definition_name)
         /\ procs' = Done(p)
         /\ last' = Raised("setup_start", "TypeError")
         /\ UNCHANGED <<instances, instance_keys, files>>
    ELSE IF ~StartNeeded(e0)
    THEN /\ instances' = Put(instances, definition_name, e0)
         /\ instance_keys' = KeysWith(instance_keys, definition_name)
         /\ locks' = Release(lk, definition_name)
         /\ procs' = Done(p)
         /\ last' = Outcome("setup_start", "None")
         /\ UNCHANGED files
    ELSE /\ instances' = Put(instances, definition_name, m2.e)
         /\ instance_keys' = KeysWith(instance_keys, definition_name)
         /\ files' = m2.fs
         /\ IF Ok(m2)
            THEN /\ locks' = lk
                 /\ procs' = [procs EXCEPT ![p] =
                        [IdleProc EXCEPT !.pc = "start_send", !.def = definition_name,
                                         !.title = "Started",
                                         !.targets = defs_to_channels[definition_name]]]
                 /\ last' = Outcome("_start_instance", "None")
            ELSE /\ locks' = Release(lk, definition_name)
                 /\ procs' = Done(p)
                 /\ last' = Raised("setup_start", m2.exc)

\* A variant of the test of setup_start that never finds a running instance
IsAlreadyRunningNever(insts, definition_name) == FALSE

\* setup_start: "Is it already running?" (there is an instance, and it runs)
IsAlreadyRunning(insts, definition_name) ==
    definition_name \in DOMAIN insts /\ IsRunning(insts[definition_name])

\* Emulator.setup_start
SetupStart(definition_name) ==
    /\ Dispatch
    /\ EmuUnchanged /\ ConfUnchanged
    /\ IF definition_name \notin DOMAIN game_defs
       THEN /\ last' = Reply("setup_start", "Improper Definition Name")
            /\ UNCHANGED <<instances, instance_keys, locks, procs, files>>
       ELSE IF IsAlreadyRunning(instances, definition_name)
       THEN /\ last' = Reply("setup_start", "Instance is Already Running")
            /\ UNCHANGED <<instances, instance_keys, locks, procs, files>>
       ELSE /\ HasFreeProc
            /\ LET lks == StartLocks(locks, definition_name) IN
               IF CanAcquire(lks[definition_name])
               THEN StartEnter(FreeProc, definition_name, AcquireNow(lks, definition_name))
               ELSE /\ locks' = Enqueue(lks, definition_name, FreeProc)
                    /\ procs' = Suspend(FreeProc, "start_wait", definition_name)
                    /\ last' = Outcome("_start_instance", "None")
                    /\ UNCHANGED <<instances, instance_keys, files>>

\* _start_instance gets the lock it waited for
StartWake(p) ==
    /\ procs[p].pc = "start_wait"
    /\ Woken(locks, procs[p].def, p)
    /\ StartEnter(p, procs[p].def, Resume(locks, procs[p].def))
    /\ EmuUnchanged /\ ConfUnchanged /\ UNCHANGED ncmds

\* The messages of _send_message_to_registered_channels are out; the lock is released
SendAndRelease(p, op) ==
    /\ locks' = Release(locks, procs[p].def)
    /\ procs' = Done(p)
    /\ last' = [Reply(op, procs[p].title) EXCEPT !.button = procs[p].button,
                                                 !.num = procs[p].num,
                                                 !.posted = Range(procs[p].targets)]
    /\ UNCHANGED <<instances, instance_keys, files, ncmds>>
    /\ EmuUnchanged /\ ConfUnchanged

StartSend(p) ==
    /\ procs[p].pc = "start_send"
    /\ SendAndRelease(p, "setup_start")

(* ------------------------------ _stop_instance ------------------------ *)
\* The emulator calls of _stop_instance for a running instance
StopEmulator(m, definition_name) ==
    Stop(SaveMainStateFile(m, definition_name), <<>>)

\* The body of _stop_instance under the lock
StopEnter(p, definition_name, lk) ==
    LET m0 == Machine(instances[definition_name], files)
        m1 == IF PathsRaise THEN Raise(m0, "TypeError") ELSE StopEmulator(m0, definition_name)
        m2 == IF Ok(m1) /\ definition_name \notin DOMAIN defs_to_channels
              THEN Raise(m1, "KeyError") ELSE m1
    IN
    IF ~IsRunning(instances[definition_name])
    THEN /\ locks' = Release(lk, definition_name)
         /\ procs' = Done(p)
         /\ last' = Outcome("setup_stop", "None")
         /\ UNCHANGED <<instances, instance_keys, files>>
    ELSE /\ instances' = [instances EXCEPT ![definition_name] = m2.e]
         /\ UNCHANGED instance_keys
         /\ files' = m2.fs
         /\ IF Ok(m2)
            THEN /\ locks' = lk
                 /\ procs' = [procs EXCEPT ![p] =
                        [IdleProc EXCEPT !.pc = "stop_send", !.def = definition_name,
                                         !.title = "Instance Stopped",
                                         !.targets = defs_to_channels[definition_name]]]
                 /\ last' = Outcome("_stop_instance", "None")
            ELSE /\ locks' = Release(lk, definition_name)
                 /\ procs' = Done(p)
                 /\ last' = Raised("setup_stop", m2.exc)

\* Emulator.setup_stop
SetupStop(definition_name) ==
    /\ Dispatch
    /\ EmuUnchanged /\ ConfUnchanged
    /\ IF definition_name \notin DOMAIN game_defs
       THEN /\ last' = Reply("setup_stop", "Improper Definition Name")
            /\ UNCHANGED <<instances, instance_keys, locks, procs, files>>
       ELSE IF definition_name \notin DOMAIN instances
               \/ ~IsRunning(instances[definition_name])
       THEN /\ last' = Reply("setup_stop", "Instance Not Running")
            /\ UNCHANGED <<instances, instance_keys, locks, procs, files>>
       ELSE /\ HasFreeProc
            /\ IF CanAcquire(locks[definition_name])
               THEN StopEnter(FreeProc, definition_name, AcquireNow(locks, definition_name))
               ELSE /\ locks' = Enqueue(locks, definition_name, FreeProc)
                    /\ procs' = Suspend(FreeProc, "stop_wait", definition_name)
                    /\ last' = Outcome("_stop_instance", "None")
                    /\ UNCHANGED <<instances, instance_keys, files>>

StopWake(p) ==
    /\ procs[p].pc = "stop_wait"
    /\ Woken(locks, procs[p].def, p)
    /\ StopEnter(p, procs[p].def, Resume(locks, procs[p].def))
    /\ EmuUnchanged /\ ConfUnchanged /\ UNCHANGED ncmds

StopSend(p) ==
    /\ procs[p].pc = "stop_send"
    /\ SendAndRelease(p, "setup_stop")

(* ------------------------------ on_message ---------------------------- *)
Min(a, b) == IF a <= b THEN a ELSE b
Max(a, b) == IF a >= b THEN a ELSE b

\* int(word): <<n>>, or <<>> for ValueError
IntOf(w) ==
    CASE w = "0" -> <<0>> [] w = "1" -> <<1>> [] w = "2" -> <<2>> [] w = "3" -> <<3>>
      [] w = "5" -> <<5>> [] w = "7" -> <<7>> [] w = "-1" -> <<-1>>
      [] OTHER -> <<>>

\* float(word) in tenths: <<t>>, or <<>> for ValueError
FloatOf(w) ==
    CASE w = "0" -> <<0>> [] w = "1" -> <<10>> [] w = "2" -> <<20>> [] w = "3" -> <<30>>
      [] w = "5" -> <<50>> [] w = "7" -> <<70>> [] w = "-1" -> <<-10>>
      [] w = "0.2" -> <<2>> [] w = "2.5" -> <<25>>
      [] OTHER -> <<>>

\* A variant of the clamp of the number of presses that leaves the number alone
PressCountUnclamped(n) == n

\* min(3, max(1, int(word)))
PressCount(n) == Min(3, Max(1, n))
\* min(3, max(0.5, float(word))), in tenths
HoldTenths(t) == Min(30, Max(5, t))

NoCommand == [run |-> FALSE, button |-> "", action |-> "", num |-> 0]

\* The number of words of a button command
CommandWords == 3

\* on_message: what the words of a message ask of the instance e (<<>>: no
\* instance): nothing, or a button, 'p' or 'h', and the clamped number
ButtonCommand(split_mess, e) ==
    IF Len(split_mess) > 3 THEN NoCommand
    ELSE IF Len(e) = 0 THEN NoCommand
    ELSE IF Lower(split_mess[1]) \notin ButtonNames(e[1]) THEN NoCommand
    ELSE IF Len(split_mess) # CommandWords THEN NoCommand
    ELSE LET action == Lower(split_mess[2]) IN
         IF action = "p"
         THEN IF IntOf(split_mess[3]) = <<>> THEN NoCommand
              ELSE [run |-> TRUE, button |-> Lower(split_mess[1]), action |-> "p",
                    num |-> PressCount(IntOf(split_mess[3])[1])]
         ELSE IF action = "h"
         THEN IF FloatOf(split_mess[3]) = <<>> THEN NoCommand
              ELSE [run |-> TRUE, button |-> Lower(split_mess[1]), action |-> "h",
                    num |-> HoldTenths(FloatOf(split_mess[3])[1])]
         ELSE NoCommand

\* for n in range(num): instance.pressButton(button)
RECURSIVE PressTimes(_, _, _)
PressTimes(m, button, num) ==
    IF ~Ok(m) \/ num <= 0 THEN m
    ELSE PressTimes(PressButton(m, button), button, num - 1)

\* The emulator calls of on_message under the lock
RunCommand(m, definition_name, cmd) ==
    LET a == IF cmd.action = "p" THEN PressTimes(m, cmd.button, cmd.num)
             ELSE HoldButton(m, cmd.button, cmd.num)
    IN MakeGIF(SaveMainStateFile(RunForXSeconds(a, 100), definition_name),
               ScreenShotsSavePath(definition_name))

\* The body of on_message under the lock
MessageEnter(p, definition_name, cmd, lk) ==
    LET m0 == Machine(instances[definition_name], files)
        m1 == RunCommand(m0, definition_name, cmd)
        m2 == IF Ok(m1) /\ definition_name \notin DOMAIN defs_to_channels
              THEN Raise(m1, "KeyError") ELSE m1
    IN
    /\ instances' = [instances EXCEPT ![definition_name] = m2.e]
    /\ UNCHANGED instance_keys
    /\ files' = m2.fs
    /\ IF Ok(m2)
       THEN /\ locks' = lk
            /\ procs' = [procs EXCEPT ![p] =
                   [IdleProc EXCEPT !.pc = "msg_send", !.def = definition_name,
                                    !.button = cmd.button, !.action = cmd.action,
                                    !.num = cmd.num,
                                    !.title = IF cmd.action = "p" THEN "pressed" ELSE "held",
                                    !.targets = defs_to_channels[definition_name]]]
            /\ last' = Outcome("on_message", "None")
       ELSE /\ locks' = Release(lk, definition_name)
            /\ procs' = Done(p)
            /\ last' = Raised("on_message", m2.exc)

\* self._instances.get(def_name, None)
InstanceOf(d) == IF d \in DOMAIN instances THEN <<instances[d]>> ELSE <<>>

\* on_message returns without an answer: the message of channel c is dropped,
\* or it waits for the lock
Returned(c) == [Outcome("on_message", "None") EXCEPT !.chan = c]

\* on_message found the lock of the game locked: the command cmd of the
\* message of channel c is not run
Discarded(c, cmd) == [Returned(c) EXCEPT !.button = cmd.button]

\* A variant of on_message that takes the channel's game to be g1 when the
\* channel is not registered
DefOfChannelDefault(c2d, c) == IF ChanStr(c) \in DOMAIN c2d THEN <<c2d[ChanStr(c)]>> ELSE <<"g1">>

\* channels_to_defs.get(str(message.channel.id), None): <<>> is None
DefOfChannel(c2d, c) == IF ChanStr(c) \in DOMAIN c2d THEN <<c2d[ChanStr(c)]>> ELSE <<>>

\* Emulator.on_message for a message in channel c; valid_user says that it is
\* a guild message of a member that is no bot and not immune to automod
OnMessage(c, valid_user, split_mess) ==
    /\ Dispatch
    /\ EmuUnchanged /\ ConfUnchanged
    /\ LET def_name == DefOfChannel(channels_to_defs, c) IN
       IF ~valid_user
       THEN /\ last' = Returned(c)
            /\ UNCHANGED <<instances, instance_keys, locks, procs, files>>
       ELSE IF def_name = <<>>
       THEN \* the whole of the handler is under 'if def_name is not None'
            /\ last' = Returned(c)
            /\ UNCHANGED <<instances, instance_keys, locks, procs, files>>
       ELSE LET d == def_name[1]
                cmd == ButtonCommand(split_mess, InstanceOf(d)) IN
            IF ~cmd.run
            THEN /\ last' = Returned(c)
                 /\ UNCHANGED <<instances, instance_keys, locks, procs, files>>
            ELSE IF Locked(locks[d])
            THEN /\ last' = Discarded(c, cmd)
                 /\ UNCHANGED <<instances, instance_keys, locks, procs, files>>
            ELSE /\ HasFreeProc
                 /\ IF CanAcquire(locks[d])
                    THEN MessageEnter(FreeProc, d, cmd, AcquireNow(locks, d))
                    ELSE /\ locks' = Enqueue(locks, d, FreeProc)
                         /\ procs' = [procs EXCEPT ![FreeProc] =
                                [IdleProc EXCEPT !.pc = "msg_wait", !.def = d,
                                                 !.button = cmd.button,
                                                 !.action = cmd.action, !.num = cmd.num]]
                         /\ last' = Returned(c)
                         /\ UNCHANGED <<instances, instance_keys, files>>

\* on_message gets the lock it waited for
MessageWake(p) ==
    /\ procs[p].pc = "msg_wait"
    /\ Woken(locks, procs[p].def, p)
    /\ MessageEnter(p, procs[p].def,
                    [run |-> TRUE, button |-> procs[p].button,
                     action |-> procs[p].action, num |-> procs[p].num],
                    Resume(locks, procs[p].def))
    /\ EmuUnchanged /\ ConfUnchanged /\ UNCHANGED ncmds

MessageSend(p) ==
    /\ procs[p].pc = "msg_send"
    /\ SendAndRelease(p, "on_message")

(* ------------------------------ delete_definition --------------------- *)
\* Emulator.setup_delete_definition up to the wait for the owner's reaction
SetupDeleteDefinition(definition_name) ==
    /\ Dispatch
    /\ EmuUnchanged /\ ConfUnchanged
    /\ UNCHANGED <<instances, instance_keys, locks, files>>
    /\ IF definition_name \notin DOMAIN game_defs
       THEN \* the message is built from name, a name the function never binds
            /\ last' = Raised("setup_delete_definition", "NameError")
            /\ UNCHANGED procs
       ELSE /\ HasFreeProc
            /\ procs' = [procs EXCEPT ![FreeProc] =
                   [IdleProc EXCEPT !.pc = "del_react", !.def = definition_name,
                                    !.snapshot = <<game_defs>>]]
            /\ last' = Reply("setup_delete_definition", "Are you sure you want to delete?")

\* The rest of setup_delete_definition after the shutdown step: game_defs is
\* the copy read before the question was asked
DeleteFinish(p, definition_name) ==
    /\ game_defs' = Del(procs[p].snapshot[1], definition_name)
    /\ procs' = Done(p)
    /\ UNCHANGED <<local_path, auto_loads, channels_to_defs>>
    /\ IF DOMAIN channels_to_defs # {}
       THEN \* del channels_to_defs[channel_id] inside the loop over its keys
            /\ last' = Raised("setup_delete_definition", "RuntimeError")
            /\ UNCHANGED defs_to_channels
       ELSE IF definition_name \notin DOMAIN defs_to_channels
       THEN /\ last' = Raised("setup_delete_definition", "KeyError")
            /\ UNCHANGED defs_to_channels
       ELSE /\ defs_to_channels' = Del(defs_to_channels, definition_name)
            /\ last' = Reply("setup_delete_definition", "Deletion Successful")

\* The shutdown step of setup_delete_definition under the lock: isRunning is a
\* property, and the code calls its value
DeleteLocked(p, definition_name, lk) ==
    /\ locks' = Release(lk, definition_name)
    /\ UNCHANGED <<instances, instance_keys, files>>
    /\ IF definition_name \in DOMAIN instances
       THEN /\ last' = Raised("setup_delete_definition", "TypeError")
            /\ procs' = Done(p)
            /\ ConfUnchanged
       ELSE DeleteFinish(p, definition_name)

\* The owner's reaction arrives
DeleteReact(p, yes) ==
    /\ procs[p].pc = "del_react"
    /\ EmuUnchanged /\ UNCHANGED ncmds
    /\ LET d == procs[p].def IN
       IF ~yes
       THEN \* contextlib is not imported
            /\ last' = Raised("setup_delete_definition", "NameError")
            /\ procs' = Done(p)
            /\ ConfUnchanged /\ UNCHANGED <<instances, instance_keys, locks, files>>
       ELSE IF d \notin DOMAIN locks
       THEN /\ DeleteFinish(p, d)
            /\ UNCHANGED <<instances, instance_keys, locks, files>>
       ELSE IF CanAcquire(locks[d])
       THEN DeleteLocked(p, d, AcquireNow(locks, d))
       ELSE /\ locks' = Enqueue(locks, d, p)
            /\ procs' = [procs EXCEPT ![p].pc = "del_wait"]
            /\ last' = Outcome("setup_delete_definition", "None")
            /\ ConfUnchanged /\ UNCHANGED <<instances, instance_keys, files>>

DeleteWake(p) ==
    /\ procs[p].pc = "del_wait"
    /\ Woken(locks, procs[p].def, p)
    /\ DeleteLocked(p, procs[p].def, Resume(locks, procs[p].def))
    /\ EmuUnchanged /\ UNCHANGED ncmds

(* ------------------------------ _stop_all_instances ------------------- *)
\* The position, from pos on, of the first key whose _stop_instance does more
\* than take and release a free lock around an instance that does not run
\* (Len(keys) + 1 when there is none)
RECURSIVE NextToStop(_, _, _, _)
NextToStop(keys, pos, insts, lks) ==
    IF pos > Len(keys) THEN pos
    ELSE IF IsRunning(insts[keys[pos]]) \/ ~CanAcquire(lks[keys[pos]]) THEN pos
    ELSE NextToStop(keys, pos + 1, insts, lks)

\* _stop_instance of the key at position i, called by _stop_all_instances,
\* under the lock, for an instance that runs
StopAllStop(p, definition_name, i, used, lk) ==
    LET m0 == Machine(instances[definition_name], files)
        m1 == IF PathsRaise THEN Raise(m0, "TypeError") ELSE StopEmulator(m0, definition_name)
        m2 == IF Ok(m1) /\ definition_name \notin DOMAIN defs_to_channels
              THEN Raise(m1, "KeyError") ELSE m1
    IN
    /\ instances' = [instances EXCEPT ![definition_name] = m2.e]
    /\ UNCHANGED instance_keys
    /\ files' = m2.fs
    /\ IF Ok(m2)
       THEN /\ locks' = lk
            /\ procs' = [procs EXCEPT ![p] =
                   [IdleProc EXCEPT !.pc = "stopall_send", !.def = definition_name,
                                    !.title = "Instance Stopped",
                                    !.targets = defs_to_channels[definition_name],
                                    !.pos = i, !.used = used]]
            /\ last' = Outcome("_stop_all_instances", "None")
       ELSE /\ locks' = Release(lk, definition_name)
            /\ procs' = Done(p)
            /\ last' = Raised("setup_stop_all", m2.exc)

\* for def_name in self._instances.keys(): await self._stop_instance(def_name)
\* from the key at position pos on, up to the next suspension. used is the size
\* of the dict when the iteration began: the iterator raises RuntimeError when
\* it is asked for a key and the dict has another size. lks is self._locks.
StopAllLoop(p, pos, used, lks) ==
    IF Len(instance_keys) # used
    THEN /\ locks' = lks
         /\ procs' = Done(p)
         /\ last' = Raised("setup_stop_all", "RuntimeError")
         /\ UNCHANGED <<instances, instance_keys, files>>
    ELSE LET i == NextToStop(instance_keys, pos, instances, lks) IN
         IF i > Len(instance_keys)
         THEN /\ locks' = lks
              /\ procs' = Done(p)
              /\ last' = Outcome("setup_stop_all", "None")
              /\ UNCHANGED <<instances, instance_keys, files>>
         ELSE IF CanAcquire(lks[instance_keys[i]])
         THEN StopAllStop(p, instance_keys[i], i, used, AcquireNow(lks, instance_keys[i]))
         ELSE /\ locks' = Enqueue(lks, instance_keys[i], p)
              /\ procs' = [procs EXCEPT ![p] =
                     [IdleProc EXCEPT !.pc = "stopall_wait", !.def = instance_keys[i],
                                      !.pos = i, !.used = used]]
              /\ last' = Outcome("_stop_all_instances", "None")
              /\ UNCHANGED <<instances, instance_keys, files>>

\* Emulator.setup_stop_all and Emulator.on_shutdown: _stop_all_instances
SetupStopAll ==
    /\ Dispatch
    /\ EmuUnchanged /\ ConfUnchanged
    /\ HasFreeProc
    /\ StopAllLoop(FreeProc, 1, Len(instance_keys), locks)

\* _stop_all_instances gets the lock one of its _stop_instance calls waited for
StopAllWake(p) ==
    /\ procs[p].pc = "stopall_wait"
    /\ Woken(locks, procs[p].def, p)
    /\ EmuUnchanged /\ ConfUnchanged /\ UNCHANGED ncmds
    /\ IF IsRunning(instances[procs[p].def])
       THEN StopAllStop(p, procs[p].def, procs[p].pos, procs[p].used,
                        Resume(locks, procs[p].def))
       ELSE StopAllLoop(p, procs[p].pos + 1, procs[p].used,
                        Release(Resume(locks, procs[p].def), procs[p].def))

\* The messages of a _stop_instance call of _stop_all_instances are out: the
\* lock is released and the loop goes on
StopAllSend(p) ==
    /\ procs[p].pc = "stopall_send"
    /\ EmuUnchanged /\ ConfUnchanged /\ UNCHANGED ncmds
    /\ StopAllLoop(p, procs[p].pos + 1, procs[p].used, Release(locks, procs[p].def))

(* ------------------------------ _auto_load_instances ------------------ *)
\* Emulator.setup_add_auto_load
SetupAddAutoLoad(definition_name) ==
    /\ Dispatch
    /\ RunUnchanged /\ EmuUnchanged
    /\ UNCHANGED <<local_path, game_defs, channels_to_defs, defs_to_channels>>
    /\ IF definition_name \notin DOMAIN game_defs
       THEN /\ last' = Reply("setup_add_auto_load", "Non-Existent Name")
            /\ UNCHANGED auto_loads
       ELSE /\ auto_loads' = Append(auto_loads, definition_name)
            /\ last' = Reply("setup_add_auto_load", "Added to List")

\* The position, from pos on, of the first name whose _start_instance does
\* more than take and release a free lock around an instance that runs
\* (Len(keys) + 1 when there is none)
RECURSIVE NextToStart(_, _, _, _)
NextToStart(keys, pos, insts, lks) ==
    IF pos > Len(keys) THEN pos
    ELSE IF /\ keys[pos] \in DOMAIN insts
            /\ ~StartNeeded(insts[keys[pos]])
            /\ keys[pos] \in DOMAIN lks
            /\ CanAcquire(lks[keys[pos]])
         THEN NextToStart(keys, pos + 1, insts, lks)
         ELSE pos

\* _start_instance of the name at position i of keys, called by
\* _auto_load_instances, under the lock, for an instance that is to be started
AutoStart(p, definition_name, keys, i, lk) ==
    LET e0 == IF definition_name \in DOMAIN instances
              THEN instances[definition_name] ELSE NewGameBoy
        m0 == Machine(e0, files)
        m1 == IF definition_name \notin DOMAIN game_defs THEN Raise(m0, "KeyError")
              ELSE StartEmulator(m0, definition_name)
        m2 == IF Ok(m1) /\ definition_name \notin DOMAIN defs_to_channels
              THEN Raise(m1, "KeyError") ELSE m1
    IN
    IF PathsRaise
    THEN /\ locks' = Release(lk, definition_name)
         /\ procs' = Done(p)
         /\ last' = Raised("setup_start_auto", "TypeError")
         /\ UNCHANGED <<instances, instance_keys, files>>
    ELSE /\ instances' = Put(instances, definition_name, m2.e)
         /\ instance_keys' = KeysWith(instance_keys, definition_name)
         /\ files' = m2.fs
         /\ IF Ok(m2)
            THEN /\ locks' = lk
                 /\ procs' = [procs EXCEPT ![p] =
                        [IdleProc EXCEPT !.pc = "auto_send", !.def = definition_name,
                                         !.title = "Started",
                                         !.targets = defs_to_channels[definition_name],
                                         !.keys = keys, !.pos = i]]
                 /\ last' = Outcome("_auto_load_instances", "None")
            ELSE /\ locks' = Release(lk, definition_name)
                 /\ procs' = Done(p)
                 /\ last' = Raised("setup_start_auto", m2.exc)

\* for def_name in auto_loads: await self._start_instance(def_name), from the
\* name at position pos of the list keys on, up to the next suspension
AutoLoop(p, keys, pos, lks) ==
    LET i == IF PathsRaise THEN pos ELSE NextToStart(keys, pos, instances, lks) IN
    IF i > Len(keys)
    THEN /\ locks' = lks
         /\ procs' = Done(p)
         /\ last' = Outcome("setup_start_auto", "None")
         /\ UNCHANGED <<instances, instance_keys, files>>
    ELSE LET lks2 == StartLocks(lks, keys[i]) IN
         IF CanAcquire(lks2[keys[i]])
         THEN AutoStart(p, keys[i], keys, i, AcquireNow(lks2, keys[i]))
         ELSE /\ locks' = Enqueue(lks2, keys[i], p)
              /\ procs' = [procs EXCEPT ![p] =
                     [IdleProc EXCEPT !.pc = "auto_wait", !.def = keys[i],
                                      !.keys = keys, !.pos = i]]
              /\ last' = Outcome("_auto_load_instances", "None")
              /\ UNCHANGED <<instances, instance_keys, files>>

\* Emulator.setup_start_auto and Emulator.on_ready: _auto_load_instances
SetupStartAuto ==
    /\ Dispatch
    /\ EmuUnchanged /\ ConfUnchanged
    /\ HasFreeProc
    /\ AutoLoop(FreeProc, auto_loads, 1, locks)

\* _auto_load_instances gets the lock one of its _start_instance calls waited
\* for: an instance that runs by now is left alone and the loop goes on
AutoWake(p) ==
    /\ procs[p].pc = "auto_wait"
    /\ Woken(locks, procs[p].def, p)
    /\ EmuUnchanged /\ ConfUnchanged /\ UNCHANGED ncmds
    /\ IF /\ ~PathsRaise
          /\ procs[p].def \in DOMAIN instances
          /\ ~StartNeeded(instances[procs[p].def])
       THEN AutoLoop(p, procs[p].keys, procs[p].pos + 1,
                     Release(Resume(locks, procs[p].def), procs[p].def))
       ELSE AutoStart(p, procs[p].def, procs[p].keys, procs[p].pos,
                      Resume(locks, procs[p].def))

\* The screen shot of a _start_instance call of _auto_load_instances is out:
\* the lock is released and the loop goes on
AutoSend(p) ==
    /\ procs[p].pc = "auto_send"
    /\ EmuUnchanged /\ ConfUnchanged /\ UNCHANGED ncmds
    /\ AutoLoop(p, procs[p].keys, procs[p].pos + 1, Release(locks, procs[p].def))

(* ------------------------------ the cog ------------------------------- *)
\* message.content.split(" ") of the messages that are sent
Contents ==
    { <<"a">>, <<"zz">>,
      <<"a", "p", "0">>, <<"A", "P", "2">>, <<"a", "p", "5">>, <<"a", "p", "0.2">>,
      <<"a", "h", "0.2">>, <<"a", "h", "3">>, <<"a", "h", "7">>, <<"a", "h", "x">>,
      <<"a", "x", "1">>, <<"a", "p", "1", "1">> }

\* The messages that are sent: any content from a valid user, and one message
\* from a user that on_message ignores
Messages ==
    {[valid_user |-> TRUE, split_mess |-> w] : w \in Contents}
      \cup {[valid_user |-> FALSE, split_mess |-> <<"a", "p", "2">>]}

\* The ROM paths given to set_definition
ROMInputs == {<<"b1", "r1">>, <<"b1", "r2">>, <<"bx", "r1">>, <<"b1", "rx">>}

Init ==
    /\ emu = NewGameBoy
    /\ calls = 0
    /\ files \in [Paths \cup GifPaths -> {NoFile}]
    /\ last = Outcome("init", "None")
    /\ CogInit

Next ==
    \/ SetupLocalPath
    \/ \E d \in Defs, roms \in ROMInputs : SetupSetDefinition(d, roms[1], roms[2])
    \/ \E c \in Channels, d \in Defs : SetupRegister(c, d)
    \/ \E c \in Channels : SetupUnregister(c)
    \/ \E d \in Defs : SetupStart(d)
    \/ \E p \in Procs : StartWake(p)
    \/ \E p \in Procs : StartSend(p)
    \/ \E d \in Defs : SetupStop(d)
    \/ \E p \in Procs : StopWake(p)
    \/ \E p \in Procs : StopSend(p)
    \/ \E c \in Channels, msg \in Messages : OnMessage(c, msg.valid_user, msg.split_mess)
    \/ \E p \in Procs : MessageWake(p)
    \/ \E p \in Procs : MessageSend(p)
    \/ \E d \in Defs : SetupDeleteDefinition(d)
    \/ \E p \in Procs, yes \in BOOLEAN : DeleteReact(p, yes)
    \/ \E p \in Procs : DeleteWake(p)
    \/ SetupStopAll
    \/ \E p \in Procs : StopAllWake(p)
    \/ \E p \in Procs : StopAllSend(p)
    \/ \E d \in Defs : SetupAddAutoLoad(d)
    \/ SetupStartAuto
    \/ \E p \in Procs : AutoWake(p)
    \/ \E p \in Procs : AutoSend(p)

Spec == Init /\ [][Next]_vars

(* ------------------------------ properties of Spec -------------------- *)
\* The coroutines that are suspended inside the section guarded by the lock
\* of definition d (they send messages while they hold the lock)
InsideSection(d) ==
    {p \in Procs : procs[p].def = d
                    /\ procs[p].pc \in {"start_send", "stop_send", "msg_send",
                                        "stopall_send", "auto_send"}}

\* The instance of d, and d's main state file
InstanceNow(d) == IF d \in DOMAIN instances THEN <<instances[d]>> ELSE <<>>
InstanceNext(d) == IF d \in DOMAIN instances' THEN <<instances'[d]>> ELSE <<>>

\* C2: for each game at most one coroutine is inside the section guarded by
\* the game's lock, that coroutine is the one that holds the lock, and a step
\* that touches the game's instance or its state file is taken while no other
\* coroutine is inside the section: the lock was free for the coroutine that
\* takes the step, and it is held, or released again, when the step ends.
C2_Mutex ==
    /\ [](\A d \in Defs :
            /\ Cardinality(InsideSection(d)) <= 1
            /\ InsideSection(d) # {} => (d \in DOMAIN locks /\ Locked(locks[d]))
            /\ (d \in DOMAIN locks /\ Locked(locks[d])) => InsideSection(d) # {})
    /\ [][ \A d \in Defs :
             (\/ InstanceNext(d) # InstanceNow(d)
              \/ files'[StateSavePath(d)] # files[StateSavePath(d)])
             => (/\ InsideSection(d) = {}
                 /\ d \in DOMAIN locks'
                 /\ d \in DOMAIN locks => ~Locked(locks[d])
                 /\ Locked(locks'[d]) => Cardinality(InsideSection(d)') = 1)
         ]_vars

\* One coroutine is inside the section of g1 with the instance running, and
\* another one waits for the lock
C2_Witness ==
    /\ "g1" \in DOMAIN locks
    /\ Locked(locks["g1"])
    /\ locks["g1"].waiters # <<>>
    /\ Cardinality(InsideSection("g1")) = 1
    /\ IsRunning(instances["g1"])

\* The state a message finds: the channel's game, its instance running, the
\* lock of the game free
Playable(c) ==
    /\ ChanStr(c) \in DOMAIN channels_to_defs
    /\ channels_to_defs[ChanStr(c)] \in DOMAIN instances
    /\ IsRunning(instances[channels_to_defs[ChanStr(c)]])
    /\ CanAcquire(locks[channels_to_defs[ChanStr(c)]])

\* the number of press events the instance of the game of channel c got
PressesOf(insts, c) == insts[channels_to_defs[ChanStr(c)]].pyboy[1].presses
\* the number of frames it ran with a button down
DownTicksOf(insts, c) == insts[channels_to_defs[ChanStr(c)]].pyboy[1].downTicks

\* C6: a message of a valid user in a channel registered to a game whose
\* instance runs (and whose lock is free), with a registered button name as
\* its only word, presses that button once.
C6_OneWordPresses ==
    [][ \A c \in Channels :
          (Playable(c) /\ OnMessage(c, TRUE, <<"a">>))
          => (/\ IsRunning(instances'[channels_to_defs[ChanStr(c)]])
              /\ PressesOf(instances', c) = PressesOf(instances, c) + 1)
      ]_vars

\* min(3, max(1, n)) and min(3, max(0.5, x)) (in tenths) written out
Clamp1to3(n) == IF n < 1 THEN 1 ELSE IF n > 3 THEN 3 ELSE n
ClampHalfTo3(t) == IF t < 5 THEN 5 ELSE IF t > 30 THEN 30 ELSE t

C8_UnregisteredChannel ==
    [][ \A c \in Channels, msg \in Messages :
          (/\ ChanStr(c) \notin DOMAIN channels_to_defs
           /\ OnMessage(c, msg.valid_user, msg.split_mess))
          => (/\ UNCHANGED <<instances, instance_keys, files, locks, procs>>
              /\ UNCHANGED <<local_path, game_defs, channels_to_defs,
                             defs_to_channels, auto_loads>>
              /\ last'.posted = {}
              /\ last'.reply = "")
      ]_vars

\* A message arrived in a channel that is not registered while the instance
\* of a game was running
C8_Witness ==
    /\ last.op = "on_message"
    /\ last.chan \in Channels
    /\ ChanStr(last.chan) \notin DOMAIN channels_to_defs
    /\ \E d \in DOMAIN instances : IsRunning(instances[d])

\* whether the instance of d runs
Runs(insts, d) == d \in DOMAIN insts /\ IsRunning(insts[d])

\* The frames _start_instance runs after it loaded the state
StartFrames == 60 * GameBoyFps

\* C9: the step that stops the instance of d writes the state the emulator
\* has at that moment to d's main state file; while the instance does not run
\* the file stays as it is; and the step that starts the instance again loads
\* that file before it runs a frame, so that the instance is the saved state
\* advanced by the frames of the start.
C9_RoundTrip ==
    [][ \A d \in Defs :
          /\ (Runs(instances, d) /\ ~Runs(instances', d))
               => files'[StateSavePath(d)] = StateFileOf(instances[d].pyboy[1])
          /\ (~Runs(instances, d) /\ ~Runs(instances', d))
               => files'[StateSavePath(d)] = files[StateSavePath(d)]
          /\ (~Runs(instances, d) /\ Runs(instances', d) /\ files[StateSavePath(d)].exists)
               => (/\ files[StateSavePath(d)].data # <<>>
                   /\ instances'[d].pyboy[1]
                        = PyTicks(files[StateSavePath(d)].data[1], StartFrames)
                   /\ files'[StateSavePath(d)] = files[StateSavePath(d)])
      ]_vars

\* An instance was started, stopped and started again, and runs from the
\* state the stop saved
C9_Witness ==
    \E d \in DOMAIN instances :
        /\ IsRunning(instances[d])
        /\ files[StateSavePath(d)].exists
        /\ files[StateSavePath(d)].data # <<>>
        /\ files[StateSavePath(d)].data[1].ticks = StartFrames
        /\ instances[d].pyboy[1].ticks = 2 * StartFrames

\* C10 as stated: set_definition with a name that is a key of game_defs
\* answers 'Name Conflict' and leaves game_defs and defs_to_channels alone.
C10_AlwaysNameConflict ==
    [][ \A d \in Defs, roms \in ROMInputs :
          (d \in DOMAIN game_defs /\ SetupSetDefinition(d, roms[1], roms[2]))
          => (/\ last'.reply = "Name Conflict"
              /\ UNCHANGED <<game_defs, defs_to_channels>>)
      ]_vars

\* C10, amended: set_definition with a name that is a key of game_defs leaves
\* game_defs and defs_to_channels alone and is rejected: with 'Name Conflict'
\* when both ROM files exist, and with 'Invalid Boot ROM' or 'Invalid Game
\* ROM' when one does not (the ROMs are looked at before the name).
C10_NameConflict ==
    [][ \A d \in Defs, roms \in ROMInputs :
          (d \in DOMAIN game_defs /\ SetupSetDefinition(d, roms[1], roms[2]))
          => (/\ UNCHANGED <<game_defs, defs_to_channels>>
              /\ last'.reply = (IF roms[1] \notin BootROMsOnDisk THEN "Invalid Boot ROM"
                                ELSE IF roms[2] \notin GameROMsOnDisk THEN "Invalid Game ROM"
                                ELSE "Name Conflict"))
      ]_vars

\* set_definition was rejected with 'Name Conflict' for a game that has
\* a channel
C10_Witness ==
    /\ last.op = "setup_set_definition"
    /\ last.reply = "Name Conflict"
    /\ \E d \in DOMAIN defs_to_channels : defs_to_channels[d] # <<>>

\* C11: setup_register for a defined game, issued in a channel that has an
\* entry in channels_to_defs, answers 'Channel Already Register' and leaves
\* channels_to_defs and defs_to_channels as they are.
C11_AlreadyRegistered ==
    [][ \A c \in Channels, d \in Defs :
          (/\ d \in DOMAIN game_defs
           /\ ChanStr(c) \in DOMAIN channels_to_defs
           /\ SetupRegister(c, d))
          => (/\ last'.exc = "None"
              /\ last'.reply = "Channel Already Register"
              /\ UNCHANGED <<channels_to_defs, defs_to_channels>>)
      ]_vars

\* The channels other than c are registered as they were: the same game in
\* channels_to_defs, and in the same lists of defs_to_channels
OthersUnchanged(c) ==
    \A c2 \in Channels \ {c} :
        /\ (ChanStr(c2) \in DOMAIN channels_to_defs') = (ChanStr(c2) \in DOMAIN channels_to_defs)
        /\ ChanStr(c2) \in DOMAIN channels_to_defs
             => channels_to_defs'[ChanStr(c2)] = channels_to_defs[ChanStr(c2)]
        /\ DOMAIN defs_to_channels' = DOMAIN defs_to_channels
        /\ \A d \in DOMAIN defs_to_channels :
             FilterOut(defs_to_channels'[d], c) = FilterOut(defs_to_channels[d], c)

\* C12: setup_unregister in a channel c that has an entry in channels_to_defs
\* removes the entry, leaves c in no list of defs_to_channels that belongs to
\* its game, and leaves the registrations of the other channels alone; and
\* when it is the command that follows a successful setup_register in c, both
\* maps are again what that register found.
C12_Unregister ==
    [][ \A c \in Channels :
          (ChanStr(c) \in DOMAIN channels_to_defs /\ SetupUnregister(c))
          => (/\ ChanStr(c) \notin DOMAIN channels_to_defs'
              /\ channels_to_defs[ChanStr(c)] \in DOMAIN defs_to_channels'
                   => c \notin Range(defs_to_channels'[channels_to_defs[ChanStr(c)]])
              /\ OthersUnchanged(c)
              /\ (last.reply = "Channel Registered" /\ last.chan = c)
                   => <<channels_to_defs', defs_to_channels'>> = last.before)
      ]_vars

\* A channel was registered as the second channel of a game, and the
\* unregister that followed has taken it out again while the first channel
\* of the game is registered as before
C12_Witness ==
    /\ last.op = "setup_unregister"
    /\ last.reply = "Channel Unregistered"
    /\ \E d \in DOMAIN defs_to_channels :
          /\ d \in DOMAIN last.before[2]
          /\ Len(last.before[2][d]) = 2
          /\ last.before[2][d][2] = last.chan
          /\ defs_to_channels[d] = <<last.before[2][d][1]>>
          /\ channels_to_defs[ChanStr(last.before[2][d][1])] = d

\* The step in which the delete_definition of coroutine p, confirmed by the
\* owner, ends
DeleteEnds(p) ==
    /\ procs'[p].pc = "idle"
    /\ \/ procs[p].pc = "del_react" /\ DeleteReact(p, TRUE)
       \/ procs[p].pc = "del_wait" /\ DeleteWake(p)

\* C13: when a confirmed delete_definition of d ends, no channel maps to d in
\* channels_to_defs, d has no entry in defs_to_channels, and every channel
\* that was registered to another definition is registered to it as before
\* in both maps.
C13_DeletesRegistrations ==
    [][ \A p \in Procs :
          DeleteEnds(p)
          => LET d == procs[p].def IN
             /\ \A k \in DOMAIN channels_to_defs' : channels_to_defs'[k] # d
             /\ d \notin DOMAIN defs_to_channels'
             /\ \A k \in DOMAIN channels_to_defs :
                  channels_to_defs[k] # d
                  => (k \in DOMAIN channels_to_defs' /\ channels_to_defs'[k] = channels_to_defs[k])
             /\ \A e \in DOMAIN defs_to_channels \ {d} :
                  e \in DOMAIN defs_to_channels' /\ defs_to_channels'[e] = defs_to_channels[e]
      ]_vars

\* C14: when a confirmed delete_definition of d ends, d is no key of
\* game_defs and the instance of d, if there is one, does not run: whether d
\* was never started, runs, or was started and stopped.
C14_DeleteShutsDown ==
    [][ \A p \in Procs :
          DeleteEnds(p)
          => (/\ procs[p].def \notin DOMAIN game_defs'
              /\ ~Runs(instances', procs[p].def))
      ]_vars

\* C17: setup_start for a defined game whose instance runs answers 'Instance
\* is Already Running' and touches nothing: no instance, file, lock or
\* coroutine changes and nothing is posted; setup_start and setup_stop for a
\* name that is no key of game_defs answer 'Improper Definition Name' and
\* make no instance and no lock.
C17_StartStopRefused ==
    [][ \A d \in Defs :
          /\ (/\ d \in DOMAIN game_defs
              /\ d \in DOMAIN instances
              /\ IsRunning(instances[d])
              /\ SetupStart(d))
             => (/\ last'.reply = "Instance is Already Running"
                 /\ last'.posted = {}
                 /\ UNCHANGED <<instances, instance_keys, files, locks, procs>>)
          /\ (d \notin DOMAIN game_defs /\ (SetupStart(d) \/ SetupStop(d)))
             => (/\ last'.reply = "Improper Definition Name"
                 /\ UNCHANGED <<instances, instance_keys, files, locks, procs>>)
      ]_vars

\* setup_start was refused for a game whose instance runs and has run the
\* frames of its start and no other
C17_Witness ==
    /\ last.op = "setup_start"
    /\ last.reply = "Instance is Already Running"
    /\ \E d \in DOMAIN instances :
          /\ IsRunning(instances[d])
          /\ instances[d].pyboy[1].ticks = StartFrames

\* C20: a message that arrives in a channel of game d while the lock of d is
\* held (by a button command, a start or a stop that is sending, with or
\* without coroutines queued on the lock) is discarded: the step changes no
\* instance and no file, it adds no waiter to the lock and leaves no
\* coroutine behind that could run the command later, and nothing is posted.
C20_DiscardedWhenLocked ==
    [][ \A c \in Channels :
          (/\ ChanStr(c) \in DOMAIN channels_to_defs
           /\ channels_to_defs[ChanStr(c)] \in DOMAIN locks
           /\ locks[channels_to_defs[ChanStr(c)]].locked
           /\ \E msg \in Messages : OnMessage(c, msg.valid_user, msg.split_mess))
          => (/\ UNCHANGED <<instances, instance_keys, files, locks, procs>>
              /\ last'.posted = {}
              /\ last'.reply = ""
              /\ last'.exc = "None")
      ]_vars

\* A well-formed button command was discarded while the lock of its game was
\* held and another coroutine was queued on the lock; no message waits
C20_Witness ==
    /\ last.op = "on_message"
    /\ last.button = "a"
    /\ last.reply = ""
    /\ last.chan \in Channels
    /\ ChanStr(last.chan) \in DOMAIN channels_to_defs
    /\ LET d == channels_to_defs[ChanStr(last.chan)] IN
         /\ locks[d].locked
         /\ locks[d].waiters # <<>>
         /\ Cardinality(InsideSection(d)) = 1
    /\ \A p \in Procs : procs[p].pc # "msg_wait"

\* C15: when _stop_all_instances ends, it ends without an exception and no
\* instance in _instances runs, whatever other commands ran while it was
\* suspended.
C15_StopAll ==
    [][ (/\ last'.op = "setup_stop_all"
         /\ \/ SetupStopAll
            \/ \E p \in Procs : StopAllWake(p) \/ StopAllSend(p))
        => (/\ last'.exc = "None"
            /\ \A d \in DOMAIN instances' : ~IsRunning(instances'[d]))
      ]_vars

\* The instance and the files of every game that runs are left as they are
RunningUntouched ==
    \A d \in Defs :
        Runs(instances, d)
        => (/\ instances'[d] = instances[d]
            /\ files'[StateSavePath(d)] = files[StateSavePath(d)]
            /\ files'[ScreenShotsSavePath(d)] = files[ScreenShotsSavePath(d)])

\* C16: when _auto_load_instances ends, it has returned and every name in
\* auto_loads has a running instance; and no step of it touches an instance
\* that runs already (no restart, no state loaded, no file written).
C16_AutoLoadStartsAll ==
    [][ (/\ last'.op \in {"setup_start_auto", "_auto_load_instances"}
         /\ \/ SetupStartAuto
            \/ \E p \in Procs : AutoWake(p) \/ AutoSend(p))
        => (/\ RunningUntouched
            /\ last'.op = "setup_start_auto"
                 => (/\ last'.exc = "None"
                     /\ \A i \in 1..Len(auto_loads') : Runs(instances', auto_loads'[i])))
      ]_vars

RECURSIVE Occurrences(_, _)
Occurrences(channel_ids, channel_id) ==
    IF channel_ids = <<>> THEN 0
    ELSE (IF Head(channel_ids) = channel_id THEN 1 ELSE 0)
           + Occurrences(Tail(channel_ids), channel_id)

\* No coroutine of a setup command is suspended (on the owner's reaction, on a
\* lock or in the sending of messages); handlers of messages do not count
NoSetupInProgress ==
    \A p \in Procs : procs[p].pc \in {"idle", "msg_wait", "msg_send"}

\* Channel c is registered to definition d in channels_to_defs
MapsTo(c, d) ==
    ChanStr(c) \in DOMAIN channels_to_defs /\ channels_to_defs[ChanStr(c)] = d

\* The number of times channel c is in the list defs_to_channels[d]
ListedIn(c, d) ==
    IF d \in DOMAIN defs_to_channels THEN Occurrences(defs_to_channels[d], c) ELSE 0

\* C23: whenever no setup command is in progress the two registration maps
\* agree: channel c maps to definition d in channels_to_defs if and only if c
\* is in the list defs_to_channels[d], and a channel that is in a list is in
\* it exactly once; this is so in every state the commands can reach.
C23_MapsAgree ==
    NoSetupInProgress
      => \A c \in Channels, d \in Defs :
           /\ MapsTo(c, d) <=> ListedIn(c, d) > 0
           /\ ListedIn(c, d) <= 1

====
